---------------------------- MODULE Spec2Model ----------------------------
(***************************************************************************)
(* Model of the andross type declarations (main.d.ts) and of its           *)
(* enumerations (enum.ts, enum.d.ts and the compiled enum module).         *)
(*                                                                         *)
(* The declarations are evaluated by the TypeScript compiler: a generic    *)
(* alias is a function from type arguments to a type.  A behaviour of the  *)
(* model is one evaluation: input holds the arguments a use site supplies, *)
(* op the declaration that was evaluated on them ("none" before) and       *)
(* result what it evaluated to.  Every alias is an operator translated     *)
(* from its right-hand side in main.d.ts; the mapped types it is built     *)
(* from (Pick, Exclude, Partial, Readonly, intersection) are operators on  *)
(* property tables.                                                        *)
(***************************************************************************)
EXTENDS Integers, Sequences, FiniteSets, TLC

VARIABLES input, op, result

vars == <<input, op, result>>

(***************************************************************************)
(* Enumerations.                                                           *)
(*   EnumTs<N>  : the members of enum.ts, in declaration order (no         *)
(*                initialisers: the compiler numbers them).                *)
(*   EnumDts<N> : the members of enum.d.ts with their written values.      *)
(*   EnumJs<N>  : the statements E[E[name] = value] = reverse of the       *)
(*                compiled module, in execution order.                     *)
(***************************************************************************)
EnumTs4 ==
    <<
       "North", "East", "South", "West"
    >>

EnumTs8 ==
    <<
       "North", "Northeast", "East", "Southeast", "South", "Southwest", "West", "Northwest"
    >>

EnumTs16 ==
    <<
       "North", "NorthNortheast", "Northeast", "EastNortheast", "East", "EastSoutheast",
       "Southeast", "SouthSoutheast", "South", "SouthSouthwest", "Southwest", "WestSouthwest",
       "West", "WestNorthwest", "Northwest", "NorthNorthwest"
    >>

EnumTs32 ==
    <<
       "North", "NorthByEast", "NorthNortheast", "NortheastByNorth", "Northeast",
       "NortheastByEast", "EastNortheast", "EastByNorth", "East", "EastBySouth",
       "EastSoutheast", "SoutheastByEast", "Southeast", "SoutheastBySouth", "SouthSoutheast",
       "SouthByEast", "South", "SouthByWest", "SouthSouthwest", "SouthwestBySouth",
       "Southwest", "SouthwestByWest", "WestSouthwest", "WestBySouth", "West", "WestByNorth",
       "WestNorthwest", "NorthwestByWest", "Northwest", "NorthwestByNorth", "NorthNorthwest",
       "NorthByWest"
    >>

EnumDts4 ==
    <<
       <<"North", 0>>, <<"East", 1>>, <<"South", 2>>, <<"West", 3>>
    >>

EnumDts8 ==
    <<
       <<"North", 0>>, <<"Northeast", 1>>, <<"East", 2>>, <<"Southeast", 3>>, <<"South", 4>>,
       <<"Southwest", 5>>, <<"West", 6>>, <<"Northwest", 7>>
    >>

EnumDts16 ==
    <<
       <<"North", 0>>, <<"NorthNortheast", 1>>, <<"Northeast", 2>>, <<"EastNortheast", 3>>,
       <<"East", 4>>, <<"EastSoutheast", 5>>, <<"Southeast", 6>>, <<"SouthSoutheast", 7>>,
       <<"South", 8>>, <<"SouthSouthwest", 9>>, <<"Southwest", 10>>, <<"WestSouthwest", 11>>,
       <<"West", 12>>, <<"WestNorthwest", 13>>, <<"Northwest", 14>>, <<"NorthNorthwest", 15>>
    >>

EnumDts32 ==
    <<
       <<"North", 0>>, <<"NorthByEast", 1>>, <<"NorthNortheast", 2>>,
       <<"NortheastByNorth", 3>>, <<"Northeast", 4>>, <<"NortheastByEast", 5>>,
       <<"EastNortheast", 6>>, <<"EastByNorth", 7>>, <<"East", 8>>, <<"EastBySouth", 9>>,
       <<"EastSoutheast", 10>>, <<"SoutheastByEast", 11>>, <<"Southeast", 12>>,
       <<"SoutheastBySouth", 13>>, <<"SouthSoutheast", 14>>, <<"SouthByEast", 15>>,
       <<"South", 16>>, <<"SouthByWest", 17>>, <<"SouthSouthwest", 18>>,
       <<"SouthwestBySouth", 19>>, <<"Southwest", 20>>, <<"SouthwestByWest", 21>>,
       <<"WestSouthwest", 22>>, <<"WestBySouth", 23>>, <<"West", 24>>, <<"WestByNorth", 25>>,
       <<"WestNorthwest", 26>>, <<"NorthwestByWest", 27>>, <<"Northwest", 28>>,
       <<"NorthwestByNorth", 29>>, <<"NorthNorthwest", 30>>, <<"NorthByWest", 31>>
    >>

EnumJs4 ==
    <<
       <<"North", 0, "North">>, <<"East", 1, "East">>, <<"South", 2, "South">>,
       <<"West", 3, "West">>
    >>

EnumJs8 ==
    <<
       <<"North", 0, "North">>, <<"Northeast", 1, "Northeast">>, <<"East", 2, "East">>,
       <<"Southeast", 3, "Southeast">>, <<"South", 4, "South">>,
       <<"Southwest", 5, "Southwest">>, <<"West", 6, "West">>, <<"Northwest", 7, "Northwest">>
    >>

EnumJs16 ==
    <<
       <<"North", 0, "North">>, <<"NorthNortheast", 1, "NorthNortheast">>,
       <<"Northeast", 2, "Northeast">>, <<"EastNortheast", 3, "EastNortheast">>,
       <<"East", 4, "East">>, <<"EastSoutheast", 5, "EastSoutheast">>,
       <<"Southeast", 6, "Southeast">>, <<"SouthSoutheast", 7, "SouthSoutheast">>,
       <<"South", 8, "South">>, <<"SouthSouthwest", 9, "SouthSouthwest">>,
       <<"Southwest", 10, "Southwest">>, <<"WestSouthwest", 11, "WestSouthwest">>,
       <<"West", 12, "West">>, <<"WestNorthwest", 13, "WestNorthwest">>,
       <<"Northwest", 14, "Northwest">>, <<"NorthNorthwest", 15, "NorthNorthwest">>
    >>

EnumJs32 ==
    <<
       <<"North", 0, "North">>, <<"NorthByEast", 1, "NorthByEast">>,
       <<"NorthNortheast", 2, "NorthNortheast">>,
       <<"NortheastByNorth", 3, "NortheastByNorth">>, <<"Northeast", 4, "Northeast">>,
       <<"NortheastByEast", 5, "NortheastByEast">>, <<"EastNortheast", 6, "EastNortheast">>,
       <<"EastByNorth", 7, "EastByNorth">>, <<"East", 8, "East">>,
       <<"EastBySouth", 9, "EastBySouth">>, <<"EastSoutheast", 10, "EastSoutheast">>,
       <<"SoutheastByEast", 11, "SoutheastByEast">>, <<"Southeast", 12, "Southeast">>,
       <<"SoutheastBySouth", 13, "SoutheastBySouth">>,
       <<"SouthSoutheast", 14, "SouthSoutheast">>, <<"SouthByEast", 15, "SouthByEast">>,
       <<"South", 16, "South">>, <<"SouthByWest", 17, "SouthByWest">>,
       <<"SouthSouthwest", 18, "SouthSouthwest">>,
       <<"SouthwestBySouth", 19, "SouthwestBySouth">>, <<"Southwest", 20, "Southwest">>,
       <<"SouthwestByWest", 21, "SouthwestByWest">>, <<"WestSouthwest", 22, "WestSouthwest">>,
       <<"WestBySouth", 23, "WestBySouth">>, <<"West", 24, "West">>,
       <<"WestByNorth", 25, "WestByNorth">>, <<"WestNorthwest", 26, "WestNorthwest">>,
       <<"NorthwestByWest", 27, "NorthwestByWest">>, <<"Northwest", 28, "Northwest">>,
       <<"NorthwestByNorth", 29, "NorthwestByNorth">>,
       <<"NorthNorthwest", 30, "NorthNorthwest">>, <<"NorthByWest", 31, "NorthByWest">>
    >>
EnumSizes == {4, 8, 16, 32}

EnumTs(n) ==
    CASE n = 4 -> EnumTs4 [] n = 8 -> EnumTs8 [] n = 16 -> EnumTs16 [] n = 32 -> EnumTs32

EnumDts(n) ==
    CASE n = 4 -> EnumDts4 [] n = 8 -> EnumDts8 [] n = 16 -> EnumDts16 [] n = 32 -> EnumDts32

EnumJs(n) ==
    CASE n = 4 -> EnumJs4 [] n = 8 -> EnumJs8 [] n = 16 -> EnumJs16 [] n = 32 -> EnumJs32

\* A lookup evaluates to the set of the value it finds: the empty set where
\* the enum has no such member (undefined in JavaScript).
Undefined == {}

\* Range of a sequence.
Range(s) == {s[i] : i \in DOMAIN s}

\* Auto-numbering with the first member numbered 1 instead of 0.
RECURSIVE AutoNumberFromOne(_, _)
AutoNumberFromOne(members, i) ==
    IF i = 1 THEN 1 ELSE AutoNumberFromOne(members, i - 1) + 1

\* enum.ts: a member without initialiser is 0 if it is the first member and
\* the value of the preceding member plus one otherwise.
RECURSIVE AutoNumber(_, _)
AutoNumber(members, i) ==
    IF i = 1 THEN 0 ELSE AutoNumber(members, i - 1) + 1

\* enum.ts: the value of E.m.
EnumTsValue(n, m) ==
    LET members == EnumTs(n)
    IN  IF m \in Range(members)
        THEN {AutoNumber(members, CHOOSE i \in DOMAIN members : members[i] = m)}
        ELSE Undefined

\* enum.d.ts: the value of E.m is the one written after the member.
EnumDtsValue(n, m) ==
    LET decls == EnumDts(n)
    IN  IF \E i \in DOMAIN decls : decls[i][1] = m
        THEN {decls[CHOOSE i \in DOMAIN decls : decls[i][1] = m][2]}
        ELSE Undefined

\* Compiled module: the enum object after the statements stmts[i..] ran on
\* obj.  E[E[name] = value] = reverse sets the property name to value and
\* the property value to reverse; a later statement overwrites an earlier one.
RECURSIVE RunEnumJs(_, _, _)
RunEnumJs(stmts, i, obj) ==
    IF i > Len(stmts)
    THEN obj
    ELSE RunEnumJs(stmts, i + 1,
                   [byName  |-> (stmts[i][1] :> stmts[i][2]) @@ obj.byName,
                    byValue |-> (stmts[i][2] :> stmts[i][3]) @@ obj.byValue])

\* Compiled module: exports.CardinalDirection<n>, built from the empty object.
EnumJsObject(n) == RunEnumJs(EnumJs(n), 1, [byName |-> <<>>, byValue |-> <<>>])

\* Compiled module: the value of E.m.
EnumJsValue(n, m) ==
    LET obj == EnumJsObject(n)
    IN  IF m \in DOMAIN obj.byName THEN {obj.byName[m]} ELSE Undefined

\* Compiled module: the reverse mapping E[E.m].
EnumJsName(n, m) ==
    LET obj == EnumJsObject(n)
    IN  {obj.byValue[v] : v \in EnumJsValue(n, m) \cap DOMAIN obj.byValue}

\* Every member name one of the three files gives to the enum of size n.
EnumMembers(n) ==
    Range(EnumTs(n)) \cup {d[1] : d \in Range(EnumDts(n))} \cup {s[1] : s \in Range(EnumJs(n))}

(***************************************************************************)
(* Exports.  Each export of a declaration file with the keywords that      *)
(* introduce it.                                                           *)
(***************************************************************************)
MainExports ==
    {
       <<"Maybe", "declare type">>, <<"Voidable", "declare type">>,
       <<"Constructor", "declare type">>, <<"Builder", "interface">>,
       <<"JSONPrimitiveValue", "declare type">>, <<"JSONObject", "interface">>,
       <<"JSONArray", "interface">>, <<"JSONCompoundValue", "declare type">>,
       <<"JSONValue", "declare type">>, <<"DeepPartial", "declare type">>,
       <<"Omit", "declare type">>, <<"RemoveFrom", "declare type">>,
       <<"PartialExcept", "declare type">>, <<"ReadonlyExcept", "declare type">>,
       <<"PartialFor", "declare type">>, <<"ReadonlyFor", "declare type">>,
       <<"RequiredFor", "declare type">>, <<"MatchingKeys", "declare type">>,
       <<"AssignableKeys", "declare type">>, <<"UnassignableKeys", "declare type">>,
       <<"PartialKeys", "declare type">>, <<"RequiredKeys", "declare type">>,
       <<"PickAssignable", "declare type">>, <<"PickMatching", "declare type">>,
       <<"PickPartial", "declare type">>, <<"PickRequired", "declare type">>,
       <<"Overwrite", "declare type">>, <<"DiscriminateUnion", "declare type">>,
       <<"UnionMap", "declare type">>, <<"Runnable", "declare type">>,
       <<"TypedFunction", "declare type">>, <<"TypedBiFunction", "declare type">>,
       <<"TypedTriFunction", "declare type">>, <<"ReversibleFunction", "interface">>,
       <<"ReversibleBiFunction", "interface">>, <<"ReversibleTriFunction", "interface">>,
       <<"Supplier", "declare type">>, <<"BiSupplier", "declare type">>,
       <<"TriSupplier", "declare type">>, <<"Consumer", "declare type">>,
       <<"BiConsumer", "declare type">>, <<"TriConsumer", "declare type">>,
       <<"UnaryOperator", "declare type">>, <<"BinaryOperator", "declare type">>,
       <<"Predicate", "declare type">>, <<"BiPredicate", "declare type">>,
       <<"TriPredicate", "declare type">>, <<"Equator", "declare type">>,
       <<"Comparator", "declare type">>, <<"KeyExtractor", "declare type">>,
       <<"Single", "declare type">>, <<"Pair", "declare type">>, <<"Triple", "declare type">>,
       <<"Quadruple", "declare type">>, <<"Quintuple", "declare type">>,
       <<"Sextuple", "declare type">>, <<"Septuple", "declare type">>,
       <<"Octuple", "declare type">>, <<"Nonuple", "declare type">>,
       <<"Decuple", "declare type">>, <<"KeyValuePair", "declare type">>,
       <<"KeyValueEntry", "interface">>, <<"StringObject", "declare type">>,
       <<"NumberObject", "interface">>, <<"Comparable", "interface">>,
       <<"Equatable", "interface">>, <<"DeletableIterator", "interface">>,
       <<"DeletableIterable", "interface">>, <<"DeletableIterableIterator", "interface">>,
       <<"Collector", "interface">>, <<"MinMaxRectangle", "interface">>,
       <<"Rectangle", "interface">>, <<"Circle", "interface">>, <<"RectSize", "interface">>,
       <<"Vector1", "interface">>, <<"Vector2", "interface">>, <<"Vector3", "interface">>,
       <<"Vector4", "interface">>, <<"Vector5", "interface">>,
       <<"CardinalDirection4", "declare type">>, <<"CardinalDirection8", "declare type">>,
       <<"CardinalDirection16", "declare type">>, <<"CardinalDirection32", "declare type">>
    }

EnumExports ==
    {
       <<"CardinalDirection4", "declare enum">>, <<"CardinalDirection8", "declare enum">>,
       <<"CardinalDirection16", "declare enum">>, <<"CardinalDirection32", "declare enum">>
    }

\* The main file with the enum file re-exported from it.
ExportsOfMerged(module) == IF module = "main" THEN MainExports \cup EnumExports ELSE EnumExports

\* The exports of "andross" (main.d.ts) and of "andross/enum" (enum.d.ts).
ExportsOf(module) == IF module = "main" THEN MainExports ELSE EnumExports

\* A declaration that stands for a value of the emitted JavaScript.  Type
\* aliases and interfaces are erased; an enum that is not const is an object.
IsRuntimeValue(kind) ==
    kind \in {"declare enum", "declare class", "declare function", "declare const",
              "declare let", "declare var", "declare namespace"}

ExportedNames == {e[1] : e \in MainExports \cup EnumExports}

(***************************************************************************)
(* Bounds of the model.                                                    *)
(***************************************************************************)
\* Number of property keys a record type is drawn from.
NumKeys == 3

(***************************************************************************)
(* Tuples.  For the alias with n parameters, TupleDefaultsTable[n][i] is   *)
(* the parameter that parameter i defaults to (0: no default) and          *)
(* TupleBodyTable[n][j] the parameter that slot j of the tuple names.      *)
(***************************************************************************)
TupleNames ==
    <<"Single", "Pair", "Triple", "Quadruple", "Quintuple",
      "Sextuple", "Septuple", "Octuple", "Nonuple", "Decuple">>

TupleDefaultsTable ==
    << <<0>>,
       <<0, 1>>,
       <<0, 1, 2>>,
       <<0, 1, 2, 3>>,
       <<0, 1, 2, 3, 4>>,
       <<0, 1, 2, 3, 4, 5>>,
       <<0, 1, 2, 3, 4, 5, 6>>,
       <<0, 1, 2, 3, 4, 5, 6, 7>>,
       <<0, 1, 2, 3, 4, 5, 6, 7, 8>>,
       <<0, 1, 2, 3, 4, 5, 6, 7, 8, 9>> >>

TupleBodyTable ==
    << <<1>>,
       <<1, 2>>,
       <<1, 2, 3>>,
       <<1, 2, 3, 4>>,
       <<1, 2, 3, 4, 5>>,
       <<1, 2, 3, 4, 5, 6>>,
       <<1, 2, 3, 4, 5, 6, 7>>,
       <<1, 2, 3, 4, 5, 6, 7, 8>>,
       <<1, 2, 3, 4, 5, 6, 7, 8, 9>>,
       <<1, 2, 3, 4, 5, 6, 7, 8, 9, 10>> >>

\* The position of the alias in main.d.ts: Single is 1 and Decuple 10.
TupleIndex(alias) == CHOOSE n \in DOMAIN TupleNames : TupleNames[n] = alias

\* Every omitted parameter defaults to the first parameter.
TupleDefaultsFirst(n) == [i \in 1..n |-> IF i = 1 THEN 0 ELSE 1]

TupleDefaults(n) == TupleDefaultsTable[n]

\* The tuple with its last slot missing.
TupleBodyShort(n) == SubSeq(TupleBodyTable[n], 1, n - 1)

TupleBody(n) == TupleBodyTable[n]

\* The type of parameter i when the type arguments targs are supplied: the
\* argument if there is one, the type of the default parameter otherwise.
RECURSIVE ResolveParam(_, _, _)
ResolveParam(defaults, targs, i) ==
    IF i <= Len(targs) THEN targs[i] ELSE ResolveParam(defaults, targs, defaults[i])

\* An instantiation compiles only if every parameter without default has an
\* argument and there are no more arguments than parameters.
TupleArgsOk(n, targs) ==
    /\ Len(targs) <= Len(TupleDefaults(n))
    /\ \A i \in DOMAIN TupleDefaults(n) : TupleDefaults(n)[i] = 0 => i <= Len(targs)

\* The alias with n parameters instantiated with targs.
InstantiateTuple(n, targs) ==
    LET params == [i \in DOMAIN TupleDefaults(n) |-> ResolveParam(TupleDefaults(n), targs, i)]
    IN  [params |-> params,
         slots  |-> [j \in DOMAIN TupleBody(n) |-> params[TupleBody(n)[j]]]]

\* Types supplied as tuple arguments.
TupleArgTypes == {"string", "number"}

\* Sequences of length 1..n over s.
SeqsUpTo(s, n) == UNION {[1..k -> s] : k \in 1..n}

\* The most type arguments any of the aliases takes.
MaxTupleArgs == Len(TupleDefaultsTable[Len(TupleDefaultsTable)])

(***************************************************************************)
(* Types.  A type that is no object type is the set of the unit types it   *)
(* is the union of; never is the empty union.                              *)
(***************************************************************************)
PrimTypes == {"string", "number", "boolean", "null", "undefined"}

\* The values a type accepts.  Without strictNullChecks null and undefined
\* are in the domain of every type.
ValuesOf(T, strict) == IF strict THEN T ELSE T \cup {"null", "undefined"}

\* Absence indicated by null as well.
MaybeOrNull(T) == T \cup {"undefined", "null"}

\* Maybe<T> = T | undefined
Maybe(T) == T \cup {"undefined"}

(***************************************************************************)
(* Record types.  A record type is a function from its keys to properties  *)
(* [type, optional, readonly]; the type of an optional property includes   *)
(* undefined (strictNullChecks, which main.d.ts recommends).               *)
(***************************************************************************)
\* Property names of the examples of main.d.ts.
KeyNames == <<"id", "uuid", "age", "mail", "name", "username", "active">>

Keys == {KeyNames[i] : i \in 1..NumKeys}

\* Declared types of the properties of the records the model draws.
BaseTypes == {{"string"}, {"number"}}

\* k: B, k?: B, readonly k: B and readonly k?: B, and the required property
\* k: string | undefined.
Properties ==
    {[type     |-> IF o THEN b \cup {"undefined"} ELSE b,
      optional |-> o,
      readonly |-> r] : b \in BaseTypes, o \in BOOLEAN, r \in BOOLEAN}
    \cup {[type |-> {"string", "undefined"}, optional |-> FALSE, readonly |-> FALSE]}

\* k: B
PlainProperties == {[type |-> b, optional |-> FALSE, readonly |-> FALSE] : b \in BaseTypes}

\* The properties without the readonly modifier.
WritableProperties == {p \in Properties : ~p.readonly}

RecordsOver(props) == UNION {[S -> props] : S \in SUBSET Keys}

Records == RecordsOver(Properties)

\* keyof T
KeyOf(T) == DOMAIN T

\* S extends T, for unions of unit types and of keys.
IsAssignable(S, T) == S \subseteq T

\* Exclude that keeps the members assignable to U.
ExcludeInverted(T, U) == UNION {IF IsAssignable({t}, U) THEN {t} ELSE {} : t \in T}

\* Exclude<T, U> = T extends U ? never : T, distributed over the members of T.
Exclude(T, U) == UNION {IF IsAssignable({t}, U) THEN {} ELSE {t} : t \in T}

\* Pick<T, K> = { [P in K]: T[P] }: homomorphic, the modifiers of T[P] are kept.
Pick(T, K) ==
    [P \in K |-> [type |-> T[P].type, optional |-> T[P].optional, readonly |-> T[P].readonly]]

\* Partial<T> = { [P in keyof T]?: T[P] }
Partial(T) ==
    [P \in KeyOf(T) |->
        [type |-> T[P].type \cup {"undefined"}, optional |-> TRUE, readonly |-> T[P].readonly]]

\* Readonly<T> = { readonly [P in keyof T]: T[P] }
Readonly(T) ==
    [P \in KeyOf(T) |->
        [type |-> T[P].type, optional |-> T[P].optional, readonly |-> TRUE]]

\* A & B.  The aliases of main.d.ts intersect record types with disjoint keys
\* only (Omit<T, K> and Pick<T, K>), where every property is taken as it is
\* from the one type that has it.  A property of both has the intersection
\* of the types, is optional if it is optional in both and readonly if it is
\* readonly in both.
Intersect(A, B) ==
    [P \in KeyOf(A) \cup KeyOf(B) |->
        IF P \in KeyOf(A) /\ P \in KeyOf(B)
        THEN [type     |-> A[P].type \cap B[P].type,
              optional |-> A[P].optional /\ B[P].optional,
              readonly |-> A[P].readonly /\ B[P].readonly]
        ELSE IF P \in KeyOf(A) THEN A[P] ELSE B[P]]

\* Omit that picks the properties K instead of the others.
OmitOthers(T, K) == Pick(T, ExcludeInverted(KeyOf(T), K))

\* Omit<T, K extends keyof T> = Pick<T, Exclude<keyof T, K>>
Omit(T, K) == Pick(T, Exclude(KeyOf(T), K))

\* RemoveFrom that removes only the properties K has with the type they have in T.
RemoveFromMatching(T, K) ==
    Pick(T, Exclude(KeyOf(T), {k \in KeyOf(K) \cap KeyOf(T) : K[k].type = T[k].type}))

\* RemoveFrom<T, K> = Pick<T, Exclude<keyof T, keyof K>>
RemoveFrom(T, K) == Pick(T, Exclude(KeyOf(T), KeyOf(K)))

\* PartialExcept with the parts exchanged: the properties K are made optional.
PartialExceptSwapped(T, K) == Intersect(Omit(T, K), Partial(Pick(T, K)))

\* PartialExcept<T, K extends keyof T> = Partial<Omit<T, K>> & Pick<T, K>
PartialExcept(T, K) == Intersect(Partial(Omit(T, K)), Pick(T, K))

\* ReadonlyExcept with the parts exchanged: the properties K are made readonly.
ReadonlyExceptSwapped(T, K) == Intersect(Omit(T, K), Readonly(Pick(T, K)))

\* ReadonlyExcept<T, K extends keyof T> = Readonly<Omit<T, K>> & Pick<T, K>
ReadonlyExcept(T, K) == Intersect(Readonly(Omit(T, K)), Pick(T, K))

\* PartialFor with the parts exchanged: the properties but K are made optional.
PartialForSwapped(T, K) == Intersect(Partial(Omit(T, K)), Pick(T, K))

\* PartialFor<T, K extends keyof T> = Omit<T, K> & Partial<Pick<T, K>>
PartialFor(T, K) == Intersect(Omit(T, K), Partial(Pick(T, K)))

\* An object literal: a function from its keys to the unit types of its values.
ObjectsOver(keys) == UNION {[S -> PrimTypes] : S \in SUBSET keys}

\* An object literal is assignable to the record type R: it has no property R
\* lacks, it has every property R requires, and every value has the type of
\* its property.
Accepts(R, obj) ==
    /\ DOMAIN obj \subseteq KeyOf(R)
    /\ \A k \in KeyOf(R) : k \notin DOMAIN obj => R[k].optional
    /\ \A k \in DOMAIN obj : IsAssignable({obj[k]}, R[k].type)

(***************************************************************************)
(* Keys selected by the type of their property.  boolean is the union of   *)
(* the unit types true and false.                                          *)
(***************************************************************************)
Boolean == {"true", "false"}

\* The properties of the User examples of MatchingKeys and AssignableKeys:
\* mail: string, age: number, age: string | number, email: string | undefined
\* and active?: boolean.
MatchProperties ==
    {[type |-> {"string"}, optional |-> FALSE, readonly |-> FALSE],
     [type |-> {"number"}, optional |-> FALSE, readonly |-> FALSE],
     [type |-> {"string", "number"}, optional |-> FALSE, readonly |-> FALSE],
     [type |-> {"string", "undefined"}, optional |-> FALSE, readonly |-> FALSE],
     [type |-> Boolean \cup {"undefined"}, optional |-> TRUE, readonly |-> FALSE]}

\* The types given as TMatch: string, undefined, string | number, boolean,
\* string | undefined and never.
MatchTypes ==
    {{"string"}, {"undefined"}, {"string", "number"}, Boolean, {"string", "undefined"}, {}}

\* K extends keyof TRecord = keyof TRecord: the argument if there is one, the
\* keys of the record otherwise.
ResolveKeys(TRecord, Karg) == IF Len(Karg) = 0 THEN KeyOf(TRecord) ELSE Karg[1]

\* MatchingKeys with the test turned around: TMatch extends TRecord[K].
MatchingKeysReversed(TRecord, TMatch, K) ==
    UNION {IF IsAssignable({k}, IF IsAssignable(TMatch, TRecord[k].type) THEN {k} ELSE {})
           THEN {k} ELSE {} : k \in K}

\* MatchingKeys<TRecord, TMatch, K> =
\*     K extends (TRecord[K] extends TMatch ? K : never) ? K : never
\* The outer conditional has the type parameter K as its checked type and is
\* distributed over the members k of K.  The inner one checks TRecord[K],
\* which is no type parameter: it is evaluated once for the whole of TRecord[k].
MatchingKeys(TRecord, TMatch, K) ==
    UNION {IF IsAssignable({k}, IF IsAssignable(TRecord[k].type, TMatch) THEN {k} ELSE {})
           THEN {k} ELSE {} : k \in K}

\* AssignableKeys<TRecord, TMatch, K> =
\*     K extends (TMatch extends TRecord[K] ? K : never) ? K : never
\* The outer conditional is distributed over the members k of K.  The inner
\* one has the type parameter TMatch as its checked type, so it is
\* distributed as well: it is the union, over the members m of TMatch, of
\* m extends TRecord[k] ? k : never (never for TMatch = never).
AssignableKeys(TRecord, TMatch, K) ==
    UNION {IF IsAssignable({k},
                           UNION {IF IsAssignable({m}, TRecord[k].type) THEN {k} ELSE {}
                                  : m \in TMatch})
           THEN {k} ELSE {} : k \in K}

(***************************************************************************)
(* References between the declarations of main.d.ts.  <<a, b>> is in       *)
(* DeclReferences if the definition of the exported type a names the       *)
(* exported type b, and in DeclHeritage if the interface a has b in its    *)
(* extends clause (b may be an interface of the standard library).         *)
(***************************************************************************)
DeclReferences ==
    {
       <<"JSONObject", "JSONPrimitiveValue">>, <<"JSONObject", "JSONObject">>,
       <<"JSONObject", "JSONArray">>, <<"JSONArray", "JSONPrimitiveValue">>,
       <<"JSONArray", "JSONObject">>, <<"JSONArray", "JSONArray">>,
       <<"JSONCompoundValue", "JSONObject">>, <<"JSONCompoundValue", "JSONArray">>,
       <<"JSONValue", "JSONPrimitiveValue">>, <<"JSONValue", "JSONCompoundValue">>,
       <<"DeepPartial", "DeepPartial">>, <<"PartialExcept", "Omit">>,
       <<"ReadonlyExcept", "Omit">>, <<"PartialFor", "Omit">>, <<"ReadonlyFor", "Omit">>,
       <<"RequiredFor", "Omit">>, <<"PartialKeys", "AssignableKeys">>,
       <<"RequiredKeys", "UnassignableKeys">>, <<"PickAssignable", "AssignableKeys">>,
       <<"PickMatching", "MatchingKeys">>, <<"PickPartial", "PartialKeys">>,
       <<"PickRequired", "RequiredKeys">>, <<"UnionMap", "DiscriminateUnion">>,
       <<"ReversibleBiFunction", "Pair">>, <<"ReversibleTriFunction", "Triple">>,
       <<"BiSupplier", "Pair">>, <<"TriSupplier", "Triple">>,
       <<"UnaryOperator", "TypedFunction">>, <<"BinaryOperator", "TypedBiFunction">>,
       <<"KeyValuePair", "Pair">>, <<"DeletableIterable", "DeletableIterator">>,
       <<"DeletableIterableIterator", "DeletableIterator">>,
       <<"DeletableIterableIterator", "DeletableIterableIterator">>,
       <<"Collector", "TypedFunction">>, <<"Collector", "Supplier">>,
       <<"Collector", "BiConsumer">>, <<"Rectangle", "RectSize">>, <<"Rectangle", "Vector2">>,
       <<"Circle", "Vector2">>, <<"CardinalDirection8", "CardinalDirection4">>,
       <<"CardinalDirection16", "CardinalDirection8">>,
       <<"CardinalDirection32", "CardinalDirection16">>
    }

DeclHeritage ==
    {
       <<"JSONArray", "Array">>, <<"DeletableIterator", "Iterator">>,
       <<"DeletableIterable", "Iterable">>,
       <<"DeletableIterableIterator", "IterableIterator">>,
       <<"DeletableIterableIterator", "DeletableIterator">>, <<"Rectangle", "Vector2">>,
       <<"Rectangle", "RectSize">>, <<"Circle", "Vector2">>
    }

\* Every reference followed in both directions.
ReferencesBothWays(name) ==
    {e[2] : e \in {d \in DeclReferences : d[1] = name}}
        \cup {e[1] : e \in {d \in DeclReferences : d[2] = name}}

\* The exported types the definition of name names.
References(name) == {e[2] : e \in {d \in DeclReferences : d[1] = name}}

\* The types the declaration of name extends.
Bases(name) == {e[2] : e \in {d \in DeclHeritage : d[1] = name}}

\* The keywords that declare name in main.d.ts; none for a type of the
\* standard library.
DeclKinds(name) == {e[2] : e \in {d \in MainExports : d[1] = name}}

(***************************************************************************)
(* The evaluations.                                                        *)
(***************************************************************************)
Inputs ==
    [kind : {"enum"}, size : EnumSizes, member : UNION {EnumMembers(n) : n \in EnumSizes}]
    \cup [kind : {"import"}, module : {"main", "enum"}, name : ExportedNames]
    \cup [kind : {"tuple"}, alias : Range(TupleNames),
          targs : SeqsUpTo(TupleArgTypes, MaxTupleArgs)]
    \cup [kind : {"type"}, T : SUBSET PrimTypes, strict : BOOLEAN]
    \cup {[kind |-> "record", T |-> T, K |-> K] : T \in Records, K \in SUBSET Keys}
    \cup [kind : {"records"}, T : RecordsOver(WritableProperties),
          K : RecordsOver(PlainProperties)]
    \cup {[kind |-> "match", TRecord |-> T, TMatch |-> M, Karg |-> A] :
              T \in RecordsOver(MatchProperties), M \in MatchTypes,
              A \in {<<>>} \cup {<<K>> : K \in SUBSET Keys}}
    \cup [kind : {"decl"}, name : {e[1] : e \in MainExports}]

\* The arguments a use site can supply: an enum member is a member of that
\* enum, a tuple has at most as many arguments as parameters, and K extends
\* keyof T where the alias constrains it so.
Init ==
    /\ input \in Inputs
    /\ input.kind = "enum" => input.member \in EnumMembers(input.size)
    /\ input.kind = "tuple" => TupleArgsOk(TupleIndex(input.alias), input.targs)
    /\ input.kind = "record" => IsAssignable(input.K, KeyOf(input.T))
    /\ input.kind = "match" =>
          IsAssignable(ResolveKeys(input.TRecord, input.Karg), KeyOf(input.TRecord))
    /\ op = "none"
    /\ result = <<>>

\* A use of CardinalDirection<n>.m, resolved against each of the three files.
LookupEnum ==
    /\ op = "none"
    /\ input.kind = "enum"
    /\ op' = "enum"
    /\ result' = [ts      |-> EnumTsValue(input.size, input.member),
                  dts     |-> EnumDtsValue(input.size, input.member),
                  js      |-> EnumJsValue(input.size, input.member),
                  reverse |-> EnumJsName(input.size, input.member),
                  count   |-> <<Len(EnumTs(input.size)), Len(EnumDts(input.size)),
                                Cardinality(DOMAIN EnumJsObject(input.size).byName)>>]
    /\ UNCHANGED input

\* import { name } from "andross" or from "andross/enum".
Import ==
    /\ op = "none"
    /\ input.kind = "import"
    /\ op' = "import"
    /\ LET found == {e \in ExportsOf(input.module) : e[1] = input.name}
       IN  result' = [kinds   |-> {e[2] : e \in found},
                      runtime |-> \E e \in found : IsRuntimeValue(e[2])]
    /\ UNCHANGED input

\* Single<...> to Decuple<...> with 1..n type arguments.
UseTuple ==
    /\ op = "none"
    /\ input.kind = "tuple"
    /\ op' = "tuple"
    /\ result' = InstantiateTuple(TupleIndex(input.alias), input.targs)
    /\ UNCHANGED input

UseMaybe ==
    /\ op = "none"
    /\ input.kind = "type"
    /\ op' = "Maybe"
    /\ result' = Maybe(input.T)
    /\ UNCHANGED input

UseOmit ==
    /\ op = "none"
    /\ input.kind = "record"
    /\ op' = "Omit"
    /\ result' = Omit(input.T, input.K)
    /\ UNCHANGED input

UseRemoveFrom ==
    /\ op = "none"
    /\ input.kind = "records"
    /\ op' = "RemoveFrom"
    /\ result' = RemoveFrom(input.T, input.K)
    /\ UNCHANGED input

UsePartialExcept ==
    /\ op = "none"
    /\ input.kind = "record"
    /\ op' = "PartialExcept"
    /\ result' = PartialExcept(input.T, input.K)
    /\ UNCHANGED input

UsePartialFor ==
    /\ op = "none"
    /\ input.kind = "record"
    /\ op' = "PartialFor"
    /\ result' = PartialFor(input.T, input.K)
    /\ UNCHANGED input

UseReadonlyExcept ==
    /\ op = "none"
    /\ input.kind = "record"
    /\ op' = "ReadonlyExcept"
    /\ result' = ReadonlyExcept(input.T, input.K)
    /\ UNCHANGED input

UseMatchingKeys ==
    /\ op = "none"
    /\ input.kind = "match"
    /\ op' = "MatchingKeys"
    /\ result' = MatchingKeys(input.TRecord, input.TMatch,
                              ResolveKeys(input.TRecord, input.Karg))
    /\ UNCHANGED input

UseAssignableKeys ==
    /\ op = "none"
    /\ input.kind = "match"
    /\ op' = "AssignableKeys"
    /\ result' = AssignableKeys(input.TRecord, input.TMatch,
                                ResolveKeys(input.TRecord, input.Karg))
    /\ UNCHANGED input

\* Resolving a type: from the declaration the use site names, or from the
\* one reached last, to a type its definition names.
FollowReference ==
    /\ input.kind = "decl"
    /\ op \in {"none", "reference"}
    /\ LET from == IF op = "none" THEN input.name ELSE result.at
       IN  \E to \in References(from) :
               /\ op' = "reference"
               /\ result' = [from |-> from, at |-> to]
    /\ UNCHANGED input

\* Resolving the extends clause of the declaration the use site names.
ResolveHeritage ==
    /\ op = "none"
    /\ input.kind = "decl"
    /\ \E base \in Bases(input.name) :
           /\ op' = "extends"
           /\ result' = [base      |-> base,
                         kinds     |-> DeclKinds(input.name),
                         baseKinds |-> DeclKinds(base)]
    /\ UNCHANGED input

Next ==
    \/ LookupEnum
    \/ Import
    \/ UseTuple
    \/ UseMaybe
    \/ UseOmit
    \/ UseRemoveFrom
    \/ UsePartialExcept
    \/ UsePartialFor
    \/ UseReadonlyExcept
    \/ UseMatchingKeys
    \/ UseAssignableKeys
    \/ FollowReference
    \/ ResolveHeritage

Spec == Init /\ [][Next]_vars

(***************************************************************************)
(* Properties.                                                             *)
(***************************************************************************)

\* C1: each enum CardinalDirection<N> has exactly N members in each of the
\* three files; the value of a member is the same in enum.d.ts, in enum.ts
\* (auto-numbered) and in the compiled module, it is its position in the
\* declaration counted from 0 (North = 0), it lies in 0..N-1, and no two
\* members share it (the reverse mapping of the value is the member).
C1_EnumValues ==
    op = "enum" =>
        LET n == input.size
            m == input.member
        IN  /\ result.count = <<n, n, n>>
            /\ result.ts = result.dts
            /\ result.dts = result.js
            /\ \E v \in 0..(n - 1) : result.js = {v} /\ EnumTs(n)[v + 1] = m
            /\ result.reverse = {m}
            /\ m = "North" => result.js = {0}

C1_Witness ==
    /\ op = "enum"
    /\ input.size = 32
    /\ input.member = "NorthByWest"
    /\ result.ts = {31}
    /\ result.js = {31}

\* C2: nothing that main.d.ts exports is a runtime value: every export is a
\* type alias or an interface; the numeric enums CardinalDirection4/8/16/32
\* are runtime values of the enum file only.
C2_MainExportsNoRuntimeValue ==
    op = "import" =>
        /\ input.module = "main" =>
              /\ ~result.runtime
              /\ result.kinds \subseteq {"declare type", "interface"}
        /\ "declare enum" \in result.kinds => input.module = "enum"
        /\ (input.module = "enum" /\ result.kinds # {}) =>
              /\ result.kinds = {"declare enum"}
              /\ result.runtime
              /\ input.name \in {"CardinalDirection4", "CardinalDirection8",
                                 "CardinalDirection16", "CardinalDirection32"}

C2_Witness ==
    /\ op = "import"
    /\ input.module = "main"
    /\ input.name = "CardinalDirection4"
    /\ result.kinds = {"declare type"}
    /\ ~result.runtime

\* C3: with only the first k type arguments supplied, slots k+1..n of the
\* tuple have the type of slot k, and the tuple is the one all n arguments
\* give when the last supplied argument is repeated (Pair<string> is
\* Pair<string, string>).
C3_TupleDefaultsToPrevious ==
    op = "tuple" =>
        LET n == TupleIndex(input.alias)
            k == Len(input.targs)
        IN  /\ \A i \in (k + 1)..n : result.slots[i] = input.targs[k]
            /\ result = InstantiateTuple(n, [i \in 1..n |-> input.targs[IF i <= k THEN i ELSE k]])

C3_Witness ==
    /\ op = "tuple"
    /\ input.alias = "Decuple"
    /\ input.targs = <<"number", "string">>
    /\ result.slots[2] = "string"
    /\ result.slots[10] = "string"

\* C4: Single, Pair, ..., Decuple have 1, 2, ..., 10 slots, and slot i has
\* the type of the i-th type parameter.
C4_TupleSlots ==
    op = "tuple" =>
        LET arity == [Single |-> 1, Pair |-> 2, Triple |-> 3, Quadruple |-> 4,
                      Quintuple |-> 5, Sextuple |-> 6, Septuple |-> 7, Octuple |-> 8,
                      Nonuple |-> 9, Decuple |-> 10]
        IN  /\ Len(result.slots) = arity[input.alias]
            /\ Len(result.params) = arity[input.alias]
            /\ \A i \in 1..arity[input.alias] : result.slots[i] = result.params[i]
            /\ \A i \in 1..Len(input.targs) : result.slots[i] = input.targs[i]

C4_Witness ==
    /\ op = "tuple"
    /\ input.alias = "Triple"
    /\ input.targs = <<"string", "number", "string">>
    /\ result.slots = <<"string", "number", "string">>

\* C5: Maybe<T> accepts exactly the values of T and undefined; it accepts
\* null only if T does.
C5_MaybeUndefinedOnly ==
    op = "Maybe" =>
        /\ ValuesOf(result, input.strict) = ValuesOf(input.T, input.strict) \cup {"undefined"}
        /\ "null" \in ValuesOf(result, input.strict) => "null" \in ValuesOf(input.T, input.strict)

C5_Witness ==
    /\ op = "Maybe"
    /\ input.strict
    /\ input.T = {"string"}
    /\ result = {"string", "undefined"}

\* C6: Omit<T, K> has exactly the keys of T that are not in K, each with the
\* type and the optional and readonly modifiers it has in T.
C6_Omit ==
    op = "Omit" =>
        /\ KeyOf(result) = KeyOf(input.T) \ input.K
        /\ \A k \in KeyOf(result) :
              /\ result[k].type = input.T[k].type
              /\ result[k].optional = input.T[k].optional
              /\ result[k].readonly = input.T[k].readonly

C6_Witness ==
    /\ op = "Omit"
    /\ KeyOf(input.T) = {"id", "uuid", "age"}
    /\ input.K = {"age"}
    /\ KeyOf(result) = {"id", "uuid"}
    /\ result["id"].optional /\ result["id"].readonly
    /\ ~result["uuid"].optional /\ ~result["uuid"].readonly

\* C7: RemoveFrom<T, K> has exactly the keys of T that are not keys of K,
\* whatever the types of the properties of K and whether or not K has keys
\* that T lacks; each remaining property keeps its type from T.
C7_RemoveFrom ==
    op = "RemoveFrom" =>
        /\ KeyOf(result) = KeyOf(input.T) \ KeyOf(input.K)
        /\ \A k \in KeyOf(result) : result[k].type = input.T[k].type

C7_Witness ==
    /\ op = "RemoveFrom"
    /\ KeyOf(input.T) = {"id", "uuid"}
    /\ KeyOf(input.K) = {"id", "age"}
    /\ input.K["id"].type # input.T["id"].type
    /\ KeyOf(result) = {"uuid"}

\* C8: PartialExcept<T, K> has every key of T; a key in K keeps its type and
\* its required or optional status, every other key is optional; an object
\* that lacks a key of K that T requires is rejected, and an object with
\* only the keys of K (with values of their types) is accepted.
C8_PartialExcept ==
    op = "PartialExcept" =>
        /\ KeyOf(result) = KeyOf(input.T)
        /\ \A k \in input.K :
              /\ result[k].type = input.T[k].type
              /\ result[k].optional = input.T[k].optional
        /\ \A k \in KeyOf(input.T) \ input.K : result[k].optional
        /\ \A obj \in ObjectsOver(Keys) :
              (\E k \in input.K : ~input.T[k].optional /\ k \notin DOMAIN obj)
                  => ~Accepts(result, obj)
        /\ \A obj \in [input.K -> PrimTypes] :
              (\A k \in input.K : obj[k] \in input.T[k].type) => Accepts(result, obj)

\* createEntity({id: 1, age: 9}) is rejected and createEntity({id: 1, uuid: "foo"})
\* is accepted.
C8_Witness ==
    /\ op = "PartialExcept"
    /\ KeyOf(input.T) = {"id", "uuid", "age"}
    /\ \A k \in KeyOf(input.T) : ~input.T[k].optional
    /\ input.T["id"].type = {"number"}
    /\ input.T["uuid"].type = {"string"}
    /\ input.T["age"].type = {"number"}
    /\ input.K = {"id", "uuid"}
    /\ result["age"].optional
    /\ ~Accepts(result, [k \in {"id", "age"} |-> "number"])
    /\ Accepts(result, [k \in {"id", "uuid"} |-> IF k = "id" THEN "number" ELSE "string"])

\* C9: PartialFor<T, K> has every key of T; a key in K is optional, every
\* other key keeps the type and the required or optional status it has in T.
C9_PartialFor ==
    op = "PartialFor" =>
        /\ KeyOf(result) = KeyOf(input.T)
        /\ \A k \in input.K : result[k].optional
        /\ \A k \in KeyOf(input.T) \ input.K :
              /\ result[k].type = input.T[k].type
              /\ result[k].optional = input.T[k].optional

C9_Witness ==
    /\ op = "PartialFor"
    /\ KeyOf(input.T) = {"id", "uuid", "age"}
    /\ \A k \in KeyOf(input.T) : ~input.T[k].optional
    /\ input.K = {"age", "uuid"}
    /\ result["age"].optional /\ result["uuid"].optional
    /\ ~result["id"].optional

\* C10: ReadonlyExcept<T, K> has every key of T with its type from T; a key
\* not in K is readonly, a key in K keeps the readonly or writable status it
\* has in T.
C10_ReadonlyExcept ==
    op = "ReadonlyExcept" =>
        /\ KeyOf(result) = KeyOf(input.T)
        /\ \A k \in KeyOf(input.T) : result[k].type = input.T[k].type
        /\ \A k \in KeyOf(input.T) \ input.K : result[k].readonly
        /\ \A k \in input.K : result[k].readonly = input.T[k].readonly

C10_Witness ==
    /\ op = "ReadonlyExcept"
    /\ KeyOf(input.T) = {"id", "uuid", "age"}
    /\ \A k \in KeyOf(input.T) : ~input.T[k].readonly
    /\ input.K = {"age", "uuid"}
    /\ result["id"].readonly
    /\ ~result["age"].readonly /\ ~result["uuid"].readonly

\* C11: MatchingKeys<TRecord, TMatch, K> is exactly the set of the keys k in
\* K (all keys of the record when K is omitted) whose property type
\* TRecord[k] is assignable to TMatch, decided key by key.
C11_MatchingKeys ==
    op = "MatchingKeys" =>
        LET K == IF input.Karg = <<>> THEN KeyOf(input.TRecord) ELSE input.Karg[1]
        IN  result = {k \in K : input.TRecord[k].type \subseteq input.TMatch}

\* User with TMatch = string and K omitted: the string properties and not age.
C11_Witness ==
    /\ op = "MatchingKeys"
    /\ KeyOf(input.TRecord) = {"id", "uuid", "age"}
    /\ input.TRecord["id"].type = {"string"}
    /\ input.TRecord["uuid"].type = {"string"}
    /\ input.TRecord["age"].type = {"number"}
    /\ input.TMatch = {"string"}
    /\ input.Karg = <<>>
    /\ result = {"id", "uuid"}

\* User with TMatch = string restricted to K = age | uuid gives uuid.
C11_WitnessRestricted ==
    /\ op = "MatchingKeys"
    /\ KeyOf(input.TRecord) = {"id", "uuid", "age"}
    /\ input.TRecord["id"].type = {"string"}
    /\ input.TRecord["uuid"].type = {"string"}
    /\ input.TRecord["age"].type = {"number"}
    /\ input.TMatch = {"string"}
    /\ input.Karg = <<{"age", "uuid"}>>
    /\ result = {"uuid"}

\* C12: AssignableKeys<TRecord, TMatch, K> is exactly the set of the keys k
\* in K such that the whole type TMatch, a union included, is assignable to
\* TRecord[k].  The declaration does not evaluate to this: see
\* AssignableKeysAnyMember.
C12_AssignableKeysWhole ==
    op = "AssignableKeys" =>
        LET K == IF input.Karg = <<>> THEN KeyOf(input.TRecord) ELSE input.Karg[1]
        IN  result = {k \in K : input.TMatch \subseteq input.TRecord[k].type}

\* What the declaration evaluates to: the keys k in K such that some member
\* of the union TMatch is assignable to TRecord[k]; no key for TMatch = never.
AssignableKeysAnyMember ==
    op = "AssignableKeys" =>
        LET K == IF input.Karg = <<>> THEN KeyOf(input.TRecord) ELSE input.Karg[1]
        IN  result = {k \in K : \E m \in input.TMatch : m \in input.TRecord[k].type}

\* Every extends clause belongs to an interface, and a base that main.d.ts
\* declares is an interface as well (the other bases are Array, Iterator,
\* Iterable and IterableIterator of the standard library).
PlainInterfaceExtension ==
    op = "extends" =>
        /\ result.kinds = {"interface"}
        /\ result.baseKinds \subseteq {"interface"}
        /\ result.baseKinds = {} =>
              result.base \in {"Array", "Iterator", "Iterable", "IterableIterator"}

\* C13 as stated: following the references between the exported types of
\* main.d.ts, no type reaches itself, directly or transitively, and the only
\* extension relations are plain interface extension.
C13_NoTypeReachesItself ==
    /\ op = "reference" => result.at # input.name
    /\ PlainInterfaceExtension

\* C13 as amended: the only exported types that reach themselves are the
\* recursive types JSONObject, JSONArray, DeepPartial and
\* DeletableIterableIterator; no other exported type reaches itself, and the
\* only extension relations are plain interface extension.
C13_OnlyRecursiveTypesReachThemselves ==
    /\ (op = "reference" /\ result.at = input.name) =>
           input.name \in {"JSONObject", "JSONArray", "DeepPartial",
                           "DeletableIterableIterator"}
    /\ PlainInterfaceExtension

\* JSONObject reaches itself through JSONArray.
C13_Witness ==
    /\ op = "reference"
    /\ input.name = "JSONObject"
    /\ result.from = "JSONArray"
    /\ result.at = "JSONObject"

\* PickPartial reaches AssignableKeys through PartialKeys and not itself.
C13_WitnessAcyclic ==
    /\ op = "reference"
    /\ input.name = "PickPartial"
    /\ result.from = "PartialKeys"
    /\ result.at = "AssignableKeys"

\* Rectangle extends the interfaces Vector2 and RectSize.
C13_WitnessExtends ==
    /\ op = "extends"
    /\ input.name = "Rectangle"
    /\ result.base = "RectSize"
    /\ result.kinds = {"interface"}
    /\ result.baseKinds = {"interface"}

=============================================================================
